---- MODULE Spec2Model ----
(***************************************************************************)
(* A model of osr::ways (src/src/ways.cc): the graph builder connect_ways, *)
(* the component labeler build_components, the restriction resolver        *)
(* add_restriction, the major-road propagator                              *)
(* compute_big_street_neighbors and the lookup get_access_restriction.     *)
(*                                                                         *)
(* Vectors are TLA+ sequences.  The ids the program stores (way_idx_t,     *)
(* node_idx_t, way_pos_t, component_idx_t) are 0-based as in the code:     *)
(* At(v, i) is v[i] of the code.                                           *)
(***************************************************************************)
EXTENDS Integers, Sequences, FiniteSets, TLC

VARIABLES
  way_osm_nodes,        \* way_osm_nodes_: way -> external node ids
  way_polylines,        \* way_polylines_: way -> points
  multi,                \* node_way_counter_.multi_: set bits
  node_to_osm,          \* node_to_osm_
  way_nodes,            \* r_->way_nodes_
  way_node_dist,        \* r_->way_node_dist_
  node_ways,            \* r_->node_ways_
  node_in_way_idx,      \* r_->node_in_way_idx_
  node_is_restricted,   \* r_->node_is_restricted_
  node_restrictions,    \* r_->node_restrictions_
  way_component,        \* r_->way_component_
  way_properties,       \* r_->way_properties_[w].is_big_street_
  cw,                   \* locals of connect_ways
  bc,                   \* locals of build_components
  ar,                   \* record of the add_restriction calls made
  bs,                   \* locals of compute_big_street_neighbors
  way_osm_idx,          \* way_osm_idx_: way -> external way id
  way_has_conditional_access_no,  \* way_has_conditional_access_no_
  way_conditional_access_no,      \* way_conditional_access_no_: (way, string)
  strings,              \* strings_
  ga,                   \* what the calls of get_access_restriction returned
  wl                    \* locals of the loop over the points of one way

vars == <<way_osm_nodes, way_polylines, multi, node_to_osm, way_nodes,
          way_node_dist, node_ways, node_in_way_idx, node_is_restricted,
          node_restrictions, way_component, way_properties, cw, bc, ar, bs,
          way_osm_idx, way_has_conditional_access_no,
          way_conditional_access_no, strings, ga, wl>>

-----------------------------------------------------------------------------
(* Bounds of the model.                                                    *)

MaxOsm == 3            \* external node ids are 1..MaxOsm
MaxCoord == 1          \* point coordinates are 0..MaxCoord (half metres)
MaxCwWays == 2         \* ways of an input of the builder specification
MaxCwLen == 3          \* points of a way of the builder specification

-----------------------------------------------------------------------------
(* Vector helpers.                                                         *)

At(v, i) == v[i + 1]

Idx(v) == 0 .. (Len(v) - 1)

Elems(v) == {v[k] : k \in 1..Len(v)}

\* vector::resize(n, x): truncate to n elements or pad with copies of x.
Resize(v, n, x) == [k \in 1..n |-> IF k <= Len(v) THEN v[k] ELSE x]

\* v[i].push_back(x) of a vector of vectors.
PushBackAt(v, i, x) == [v EXCEPT ![i + 1] = Append(@, x)]

SeqsUpTo(S, n) == UNION {[1..k -> S] : k \in 1..n}

RECURSIVE Concat(_)
Concat(vv) == IF vv = <<>> THEN <<>> ELSE Head(vv) \o Concat(Tail(vv))

Abs(x) == IF x < 0 THEN -x ELSE x

kInvalid == -1         \* node_idx_t::invalid(), component_idx_t::invalid()
kUint16 == 65536       \* 2^16, the range of std::uint16_t

-----------------------------------------------------------------------------
(* connect_ways.                                                           *)

\* The earlier counting pass: a node's multi bit is set when ways refer to it
\* at least twice.
RECURSIVE Occurrences(_, _)
Occurrences(s, x) ==
  IF s = <<>> THEN 0
  ELSE (IF Head(s) = x THEN 1 ELSE 0) + Occurrences(Tail(s), x)

MultiOf(osm_nodes) == {x \in 1..MaxOsm : Occurrences(Concat(osm_nodes), x) >= 2}

\* bitvec::for_each_set_bit: the set bits in ascending order.
RECURSIVE SetBitsFrom(_, _)
SetBitsFrom(bits, b) ==
  IF b > MaxOsm THEN <<>>
  ELSE (IF b \in bits THEN <<b>> ELSE <<>>) \o SetBitsFrom(bits, b + 1)

RECURSIVE SetBitsDownFrom(_, _)
SetBitsDownFrom(bits, b) ==
  IF b < 1 THEN <<>>
  ELSE (IF b \in bits THEN <<b>> ELSE <<>>) \o SetBitsDownFrom(bits, b - 1)

ForEachSetBitDescending(bits) == SetBitsDownFrom(bits, MaxOsm)

ForEachSetBit(bits) == SetBitsFrom(bits, 1)

\* node_way_counter_.is_multi
IsMulti(bits, osm_node_idx) == osm_node_idx \in bits

\* ways::get_node_idx: the position of the external id in node_to_osm_
\* (lower bound of a binary search).
GetNodeIdx(n2o, osm_node_idx) ==
  Cardinality({k \in 1..Len(n2o) : n2o[k] < osm_node_idx})

\* geo::distance of two points, in half metres.
GeoDistance(a, b) == Abs(a - b)

\* static_cast<std::uint16_t>(std::round(distance)), distance in half metres.
RoundedDist(distance) == ((distance + 1) \div 2) % kUint16

\* The position counter of a way is a std::uint16_t (line 211).
NextPosStuck(i) == i

NextPos(i) == (i + 1) % kUint16

\* Line 207: the counter is at the largest value of a std::uint16_t.
PosAtMaxNever(i) == FALSE

PosAtMax(i) == i = kUint16 - 1

\* Whether the point's predecessor contributes to the accumulator.
PredPosHasValue(st) == st.pred_pos # kInvalid

\* The locals of the loop over one way, before its first point.
WayLoopInit(way_idx, nw, niw) ==
  [pred_pos |-> 0, from |-> kInvalid, distance |-> 0, i |-> 0,
   way_idx |-> way_idx, dists |-> <<>>, nodes |-> <<>>,
   node_ways |-> nw, node_in_way_idx |-> niw, error |-> FALSE]

\* Line 204: the accumulator after an internal node.
DistanceAfterNodeKept(distance) == distance

DistanceAfterNode(distance) == 0

\* Whether the distance is pushed at an internal node.
PushesDistAlways(st) == TRUE

PushesDist(st) == st.from # kInvalid

\* The body of the loop over a way's (osm_node_idx, pos) pairs.
WayLoopBody(st, bits, n2o, osm_node_idx, pos) ==
  LET d1 == IF PredPosHasValue(st)
            THEN st.distance + GeoDistance(pos, st.pred_pos)
            ELSE st.distance
  IN IF IsMulti(bits, osm_node_idx)
     THEN LET to == GetNodeIdx(n2o, osm_node_idx)
          IN [st EXCEPT
                !.node_ways = PushBackAt(@, to, st.way_idx),
                !.node_in_way_idx = PushBackAt(@, to, st.i),
                !.nodes = Append(@, to),
                !.dists = IF PushesDist(st) THEN Append(@, RoundedDist(d1)) ELSE @,
                !.distance = DistanceAfterNode(d1),
                !.from = to,
                !.error = @ \/ PosAtMax(st.i),
                !.i = NextPos(st.i),
                !.pred_pos = pos]
     ELSE [st EXCEPT !.distance = d1, !.pred_pos = pos]

RECURSIVE WayLoop(_, _, _, _, _, _)
WayLoop(st, bits, n2o, osm_nodes, polyline, k) ==
  IF k > Len(osm_nodes) \/ k > Len(polyline) THEN st
  ELSE WayLoop(WayLoopBody(st, bits, n2o, osm_nodes[k], polyline[k]),
               bits, n2o, osm_nodes, polyline, k + 1)

\* The state of the builder: the columns it writes and its staging vectors.
CwState(n2o, wn, wd, nw, niw, errs) ==
  [node_to_osm |-> n2o, way_nodes |-> wn, way_node_dist |-> wd,
   node_ways |-> nw, node_in_way_idx |-> niw, errors |-> errs]

\* One iteration of the loop over the ways.
CwWayStep(s, bits, osm_nodes, polyline) ==
  LET st == WayLoop(WayLoopInit(Len(s.way_nodes), s.node_ways, s.node_in_way_idx),
                    bits, s.node_to_osm, osm_nodes, polyline, 1)
  IN CwState(s.node_to_osm,
             Append(s.way_nodes, st.nodes),
             Append(s.way_node_dist, st.dists),
             st.node_ways, st.node_in_way_idx,
             IF st.error THEN Append(s.errors, Len(s.way_nodes)) ELSE s.errors)

\* The block "Assign graph node ids to every node with >1 way".
CwCreateNodes(n2o, bits) == n2o \o ForEachSetBit(bits)

RECURSIVE CwAllWays(_, _, _, _, _)
CwAllWays(s, bits, osm_nodes, polylines, k) ==
  IF k > Len(osm_nodes) THEN s
  ELSE CwAllWays(CwWayStep(s, bits, osm_nodes[k], polylines[k]),
                 bits, osm_nodes, polylines, k + 1)

\* connect_ways as a whole, on an empty store.
ConnectWaysResult(osm_nodes, polylines, bits) ==
  LET n2o == CwCreateNodes(<<>>, bits)
      empty == [k \in 1..Len(n2o) |-> <<>>]
  IN CwAllWays(CwState(n2o, <<>>, <<>>, empty, empty, <<>>),
               bits, osm_nodes, polylines, 1)

-----------------------------------------------------------------------------
(* States before the stages run.                                           *)

CwIdle == [pc |-> "idle", node_ways |-> <<>>, node_in_way_idx |-> <<>>, errors |-> <<>>]
CwDone(errs) == [pc |-> "done", node_ways |-> <<>>, node_in_way_idx |-> <<>>, errors |-> errs]
BcIdle == [pc |-> "idle", i |-> 0, q |-> {}, c |-> kInvalid, next_component_idx |-> 0,
           runs |-> 0, inserted |-> <<>>]
ArIdle == [calls |-> 0, records |-> 0, last |-> <<>>, before |-> <<>>,
           vias |-> {}, again |-> FALSE]
BsIdle == [pc |-> "idle", is_orig_big_street |-> <<>>, next |-> 0,
           cur |-> <<>>, done |-> <<>>, ran |-> <<>>, passes |-> 0, first |-> <<>>]

GaIdle == [result |-> <<>>]
WlIdle == [pc |-> "idle", st |-> <<>>, seen |-> 0, before |-> 0, ways |-> 0,
           errors |-> <<>>]

\* The external way ids, and a store without conditional access strings.
NoAccessStrings ==
  /\ way_osm_idx = [k \in 1..Len(way_osm_nodes) |-> k]
  /\ way_has_conditional_access_no = [k \in 1..Len(way_osm_nodes) |-> FALSE]
  /\ way_conditional_access_no = <<>>
  /\ strings = <<>>
  /\ ga = GaIdle

LookupUnchanged ==
  UNCHANGED <<way_osm_idx, way_has_conditional_access_no,
              way_conditional_access_no, strings, ga>>

\* Way inputs: nw ways of 1..len external nodes each.
WayInputs(nw, len) == [1..nw -> SeqsUpTo(1..MaxOsm, len)]

\* Way inputs whose ways list their nodes in ascending external id (a node may
\* repeat).
SortedWayInputs(nw, len) ==
  {osm \in WayInputs(nw, len) :
     \A w \in 1..nw : \A k \in 1..(Len(osm[w]) - 1) : osm[w][k] <= osm[w][k + 1]}

\* Way inputs whose ways list distinct nodes in ascending external id.
AscendingWayInputs(nw, len) ==
  {osm \in WayInputs(nw, len) :
     \A w \in 1..nw : \A k \in 1..(Len(osm[w]) - 1) : osm[w][k] < osm[w][k + 1]}

ZeroPolylines(osm_nodes) ==
  [w \in 1..Len(osm_nodes) |-> [k \in 1..Len(osm_nodes[w]) |-> 0]]

PolylinesFor(osm_nodes) ==
  {p \in [1..Len(osm_nodes) -> SeqsUpTo(0..MaxCoord, MaxCwLen)] :
     \A w \in 1..Len(osm_nodes) : Len(p[w]) = Len(osm_nodes[w])}

-----------------------------------------------------------------------------
(* The builder as a state machine.                                         *)

InitConnect ==
  /\ \E nw \in 1..MaxCwWays : way_osm_nodes \in WayInputs(nw, MaxCwLen)
  /\ way_polylines \in PolylinesFor(way_osm_nodes)
  /\ multi = MultiOf(way_osm_nodes)
  /\ node_to_osm = <<>>
  /\ way_nodes = <<>>
  /\ way_node_dist = <<>>
  /\ node_ways = <<>>
  /\ node_in_way_idx = <<>>
  /\ node_is_restricted = <<>>
  /\ node_restrictions = <<>>
  /\ way_component = <<>>
  /\ way_properties = [w \in 1..Len(way_osm_nodes) |-> FALSE]
  /\ cw = CwIdle
  /\ bc = BcIdle
  /\ ar = ArIdle
  /\ bs = BsIdle
  /\ NoAccessStrings
  /\ wl = WlIdle

CwUnchanged ==
  /\ UNCHANGED <<way_osm_nodes, way_polylines, multi, node_restrictions,
                 way_component, way_properties, bc, ar, bs, wl>>
  /\ LookupUnchanged

\* Lines 148-161 and 178-179.
ConnectCreateNodes ==
  /\ cw.pc = "idle"
  /\ node_to_osm' = CwCreateNodes(node_to_osm, multi)
  /\ node_is_restricted' =
       Resize(node_is_restricted, Len(node_to_osm') - Len(node_to_osm), FALSE)
  /\ cw' = [cw EXCEPT !.pc = "ways",
                      !.node_ways = [k \in 1..Len(node_to_osm') |-> <<>>],
                      !.node_in_way_idx = [k \in 1..Len(node_to_osm') |-> <<>>]]
  /\ UNCHANGED <<way_nodes, way_node_dist, node_ways, node_in_way_idx>>
  /\ CwUnchanged

\* Lines 180-217, one way.
ConnectWay ==
  /\ cw.pc = "ways"
  /\ Len(way_nodes) < Len(way_osm_nodes)
  /\ LET k == Len(way_nodes) + 1
         s == CwWayStep(CwState(node_to_osm, way_nodes, way_node_dist,
                                cw.node_ways, cw.node_in_way_idx, cw.errors),
                        multi, way_osm_nodes[k], way_polylines[k])
     IN /\ way_nodes' = s.way_nodes
        /\ way_node_dist' = s.way_node_dist
        /\ cw' = [cw EXCEPT !.node_ways = s.node_ways,
                            !.node_in_way_idx = s.node_in_way_idx,
                            !.errors = s.errors]
  /\ UNCHANGED <<node_to_osm, node_ways, node_in_way_idx, node_is_restricted>>
  /\ CwUnchanged

\* Lines 219-231.
ConnectFinish ==
  /\ cw.pc = "ways"
  /\ Len(way_nodes) = Len(way_osm_nodes)
  /\ node_ways' = node_ways \o cw.node_ways
  /\ node_in_way_idx' = node_in_way_idx \o cw.node_in_way_idx
  /\ cw' = CwDone(cw.errors)
  /\ UNCHANGED <<node_to_osm, way_nodes, way_node_dist, node_is_restricted>>
  /\ CwUnchanged

NextConnect == ConnectCreateNodes \/ ConnectWay \/ ConnectFinish

SpecConnect == InitConnect /\ [][NextConnect]_vars

-----------------------------------------------------------------------------
(* The loop over the points of a way, point by point, for ways of 2^16     *)
(* internal nodes.  The points are drawn as the loop goes; of every vector *)
(* the loop pushes to only the last element is kept.                       *)

MaxWlWays == 2         \* ways of the way loop specification
MaxWlNodes == 65538    \* internal nodes of the first way
MaxWlLaterNodes == 2   \* internal nodes of a later way

KeepLast(v) == IF v = <<>> THEN <<>> ELSE <<v[Len(v)]>>

Forget(st) ==
  [st EXCEPT !.dists = KeepLast(@), !.nodes = KeepLast(@),
             !.node_ways = [k \in DOMAIN @ |-> KeepLast(@[k])],
             !.node_in_way_idx = [k \in DOMAIN @ |-> KeepLast(@[k])]]

\* connect_ways has created the one internal node (external id 1) and is
\* before its first way.
InitOverflow ==
  /\ way_osm_nodes = <<>>
  /\ way_polylines = <<>>
  /\ multi = {1}
  /\ node_to_osm = CwCreateNodes(<<>>, multi)
  /\ way_nodes = <<>>
  /\ way_node_dist = <<>>
  /\ node_ways = <<>>
  /\ node_in_way_idx = <<>>
  /\ node_is_restricted = <<FALSE>>
  /\ node_restrictions = <<>>
  /\ way_component = <<>>
  /\ way_properties = <<>>
  /\ cw = [CwIdle EXCEPT !.pc = "ways", !.node_ways = << <<>> >>,
                         !.node_in_way_idx = << <<>> >>]
  /\ bc = BcIdle
  /\ ar = ArIdle
  /\ bs = BsIdle
  /\ NoAccessStrings
  /\ wl = WlIdle

WlUnchanged ==
  /\ UNCHANGED <<way_osm_nodes, way_polylines, multi, node_to_osm, way_nodes,
                 way_node_dist, node_ways, node_in_way_idx, node_is_restricted,
                 node_restrictions, way_component, way_properties,
                 cw, bc, ar, bs>>
  /\ LookupUnchanged

\* Lines 180-187: the loop over the points of the next way begins.
WlBeginWay ==
  /\ wl.pc = "idle"
  /\ wl.ways < MaxWlWays
  /\ wl' = [wl EXCEPT !.pc = "loop", !.seen = 0,
                      !.st = WayLoopInit(wl.ways, cw.node_ways, cw.node_in_way_idx)]
  /\ WlUnchanged

\* Lines 188-215: one point of the way, an internal node (external id 1) or
\* not (external id 2).
WlPoint ==
  /\ wl.pc = "loop"
  /\ \E osm_node_idx \in 1..2 :
       /\ IsMulti(multi, osm_node_idx) =>
            wl.seen < (IF wl.ways = 0 THEN MaxWlNodes ELSE MaxWlLaterNodes)
       /\ wl' = [wl EXCEPT
                   !.st = Forget(WayLoopBody(wl.st, multi, node_to_osm,
                                             osm_node_idx, 0)),
                   !.seen = IF IsMulti(multi, osm_node_idx) THEN @ + 1 ELSE @]
  /\ WlUnchanged

\* Line 216: the way has no more points.
WlEndWay ==
  /\ wl.pc = "loop"
  /\ wl' = [wl EXCEPT
              !.pc = "idle", !.ways = @ + 1, !.st = <<>>, !.seen = 0,
              !.before = wl.seen,
              !.errors = IF wl.st.error THEN Append(@, wl.st.way_idx) ELSE @]
  /\ WlUnchanged

NextOverflow == WlBeginWay \/ WlPoint \/ WlEndWay

SpecOverflow == InitOverflow /\ [][NextOverflow]_vars

-----------------------------------------------------------------------------
(* The store after connect_ways, as the later stages find it.              *)

n_ways == Len(way_nodes)

GraphColumns(osm_nodes) ==
  LET bits == MultiOf(osm_nodes)
      g == ConnectWaysResult(osm_nodes, ZeroPolylines(osm_nodes), bits)
  IN /\ way_osm_nodes = osm_nodes
     /\ way_polylines = ZeroPolylines(osm_nodes)
     /\ multi = bits
     /\ node_to_osm = g.node_to_osm
     /\ way_nodes = g.way_nodes
     /\ way_node_dist = g.way_node_dist
     /\ node_ways = g.node_ways
     /\ node_in_way_idx = g.node_in_way_idx
     /\ node_is_restricted = [k \in 1..Len(g.node_to_osm) |-> FALSE]
     /\ cw = CwDone(g.errors)
     /\ wl = WlIdle

GraphInit(osm_nodes) == GraphColumns(osm_nodes) /\ NoAccessStrings

GraphUnchanged ==
  /\ UNCHANGED <<way_osm_nodes, way_polylines, multi, node_to_osm, way_nodes,
                 way_node_dist, node_ways, node_in_way_idx, cw, wl>>
  /\ LookupUnchanged

-----------------------------------------------------------------------------
(* build_components.                                                       *)

MaxBcWays == 4         \* ways of an input of the labeler specification
MaxBcLen == 2          \* nodes of a way of the labeler specification
MaxBcRuns == 2         \* calls of build_components
MaxInsertCount == 2    \* the count of the insertions of a way stops here

\* Line 56: the way already has a component.
AlreadyLabeledNever(c) == FALSE

AlreadyLabeled(c) == c # kInvalid

\* Line 39: the way has no component yet.
IsUnlabeledAlways(wc) == TRUE

IsUnlabeled(wc) == wc = kInvalid

\* Lines 51 and 59: next_component_idx++.
NextComponentIdxSkipping(n) == n + 2

NextComponentIdx(n) == n + 1

\* Lines 32 and 41: one more insertion of a way into q has been seen.
CountInsert(n) == IF n < MaxInsertCount THEN n + 1 ELSE n

\* Line 41: q.insert(w).
FillEnqueueNothing(q, w) == q

FillEnqueue(q, w) == q \cup {w}

\* The ways the two loops of lines 36-37 visit, in order.
WaysAroundFirstNode(wn, nw, x) ==
  IF At(wn, x) = <<>> THEN <<>> ELSE At(nw, At(wn, x)[1])

WaysAround(wn, nw, x) == Concat([k \in 1..Len(At(wn, x)) |-> At(nw, At(wn, x)[k])])

\* Lines 38-42 for the visited ways ws[k..]: f is [wc, q, ins].
RECURSIVE FillVisit(_, _, _, _)
FillVisit(f, ws, k, c) ==
  IF k > Len(ws) THEN f
  ELSE LET w == ws[k]
       IN IF IsUnlabeled(At(f.wc, w))
          THEN FillVisit([wc |-> [f.wc EXCEPT ![w + 1] = c],
                          q |-> FillEnqueue(f.q, w),
                          ins |-> [f.ins EXCEPT ![w + 1] = CountInsert(@)]],
                         ws, k + 1, c)
          ELSE FillVisit(f, ws, k + 1, c)

InitComponents ==
  /\ \E nw \in 1..MaxBcWays : \E osm \in SortedWayInputs(nw, MaxBcLen) : GraphInit(osm)
  /\ node_restrictions = <<>>
  /\ way_component = <<>>
  /\ way_properties = [w \in 1..Len(way_osm_nodes) |-> FALSE]
  /\ bc = BcIdle
  /\ ar = ArIdle
  /\ bs = BsIdle

BcUnchanged ==
  /\ GraphUnchanged
  /\ UNCHANGED <<node_is_restricted, node_restrictions, way_properties, ar, bs>>

\* Lines 29 and 51-52: a call of build_components starts.
BcStart ==
  /\ bc.pc \in {"idle", "done"}
  /\ bc.runs < MaxBcRuns
  /\ way_component' = Resize(way_component, n_ways, kInvalid)
  /\ bc' = [pc |-> "loop", i |-> 0, q |-> {}, c |-> kInvalid,
            next_component_idx |-> 0, runs |-> bc.runs + 1,
            inserted |-> [w \in 1..n_ways |-> 0]]
  /\ BcUnchanged

\* Lines 53-58: the way is labeled already.
BcSkip ==
  /\ bc.pc = "loop"
  /\ bc.i # n_ways
  /\ AlreadyLabeled(At(way_component, bc.i))
  /\ bc' = [bc EXCEPT !.i = @ + 1]
  /\ UNCHANGED way_component
  /\ BcUnchanged

\* Lines 53-60 and 31-32: the way starts the next component.
BcNewComponent ==
  /\ bc.pc = "loop"
  /\ bc.i # n_ways
  /\ ~AlreadyLabeled(At(way_component, bc.i))
  /\ bc.q = {}
  /\ way_component' = [way_component EXCEPT ![bc.i + 1] = bc.next_component_idx]
  /\ bc' = [bc EXCEPT !.pc = "fill", !.c = bc.next_component_idx,
                      !.next_component_idx = NextComponentIdx(@), !.q = {bc.i},
                      !.inserted = [@ EXCEPT ![bc.i + 1] = CountInsert(@)]]
  /\ BcUnchanged

\* Lines 33-45: one iteration of the flood fill, for any element of q.
BcFill ==
  /\ bc.pc = "fill"
  /\ bc.q # {}
  /\ \E next \in bc.q :
       LET f == FillVisit([wc |-> way_component, q |-> bc.q \ {next},
                           ins |-> bc.inserted],
                          WaysAround(way_nodes, node_ways, next), 1, bc.c)
       IN /\ way_component' = f.wc
          /\ bc' = [bc EXCEPT !.q = f.q, !.inserted = f.ins]
  /\ BcUnchanged

\* Lines 33 and 61: the work set is empty, the loop over the ways goes on.
BcFillDone ==
  /\ bc.pc = "fill"
  /\ bc.q = {}
  /\ bc' = [bc EXCEPT !.pc = "loop", !.i = @ + 1]
  /\ UNCHANGED way_component
  /\ BcUnchanged

\* Lines 53 and 63: the loop over the ways ends.
BcReturn ==
  /\ bc.pc = "loop"
  /\ bc.i = n_ways
  /\ bc' = [bc EXCEPT !.pc = "done"]
  /\ UNCHANGED way_component
  /\ BcUnchanged

NextComponents ==
  BcStart \/ BcSkip \/ BcNewComponent \/ BcFill \/ BcFillDone \/ BcReturn

SpecComponents == InitComponents /\ [][NextComponents]_vars

\* build_components runs on one thread: a call that has started keeps taking
\* steps.
BcRunning == BcSkip \/ BcNewComponent \/ BcFill \/ BcFillDone \/ BcReturn

SpecComponentsFair == SpecComponents /\ WF_vars(BcRunning)

-----------------------------------------------------------------------------
(* add_restriction.                                                        *)

MaxArWays == 3         \* ways of an input of the resolver specification
MaxArLen == 2          \* nodes of a way of the resolver specification
MaxArCalls == 2        \* calls of add_restriction
MaxRecords == 2        \* restriction records over all calls

kNo == "kNo"
kOnly == "kOnly"

\* resolved_restriction records whose ways touch the via node.
Records ==
  {[type |-> ty, from |-> f, to |-> t, via |-> v] :
     ty \in {kNo, kOnly}, f \in 0 .. (n_ways - 1), t \in 0 .. (n_ways - 1),
     v \in 0 .. (Len(node_ways) - 1)}

ResolvedRecords ==
  {x \in Records : {x.from, x.to} \subseteq Elems(At(node_ways, x.via))}

Batches(n) == UNION {[1..k -> ResolvedRecords] : k \in 0..n}

\* utl::sort by via (line 67): any order of the batch with ascending via.
SortedByVia(rs) ==
  {[k \in 1..Len(rs) |-> rs[p[k]]] : p \in
     {q \in [1..Len(rs) -> 1..Len(rs)] :
        /\ \A a, b \in 1..Len(rs) : a # b => q[a] # q[b]
        /\ \A a \in 1..(Len(rs) - 1) : rs[q[a]].via <= rs[q[a + 1]].via}}

\* routing::get_way_pos: the slot of the way among the ways touching the node.
GetWayPos(nw, node, way) ==
  LET ws == At(nw, node)
      hits == {k \in 1..Len(ws) : ws[k] = way}
  IN IF hits = {} THEN 0
     ELSE (CHOOSE k \in hits : \A h \in hits : k <= h) - 1

\* Line 85: the condition on a pair of ways of the via node.
OnlyForbidsToo(x, from, to) == x.from = from

OnlyForbids(x, from, to) == x.from = from /\ x.to # to

\* Lines 81-90: the pairs an Only record appends, k counting the pairs (i, j)
\* of the two loops.
RECURSIVE OnlyPairs(_, _, _)
OnlyPairs(x, ws, k) ==
  IF k >= Len(ws) * Len(ws) THEN <<>>
  ELSE LET i == k \div Len(ws)
           j == k % Len(ws)
       IN (IF OnlyForbids(x, At(ws, i), At(ws, j)) THEN << <<i, j>> >> ELSE <<>>)
            \o OnlyPairs(x, ws, k + 1)

\* Lines 77-79: the pairs a No record appends.
NoPairs(x, nw) ==
  << <<GetWayPos(nw, x.via, x.from), GetWayPos(nw, x.via, x.to)>> >>

\* Lines 76-91: the pairs a record appends to the list of its via node.
RecordPairs(x, nw) ==
  IF x.type = kNo THEN NoPairs(x, nw) ELSE OnlyPairs(x, At(nw, x.via), 0)

\* Line 72: the size the column gets before a via node's records.
GroupResize(nr, via) == via + 1

\* Line 73: node_is_restricted_.set(via, true).
SetRestrictedNever(bits, via) == bits

SetRestricted(bits, via) == [bits EXCEPT ![via + 1] = TRUE]

\* Lines 70-92 for the sorted records rs[k..]: s is [nr, bits].
RECURSIVE ApplyRecords(_, _, _, _)
ApplyRecords(s, rs, k, nw) ==
  IF k > Len(rs) THEN s
  ELSE LET x == rs[k]
           first == k = 1 \/ rs[k - 1].via # x.via
           nr1 == IF first
                  THEN Resize(s.nr, GroupResize(s.nr, x.via), <<>>)
                  ELSE s.nr
           bits1 == IF first THEN SetRestricted(s.bits, x.via) ELSE s.bits
       IN ApplyRecords([nr |-> [nr1 EXCEPT ![x.via + 1] = @ \o RecordPairs(x, nw)],
                        bits |-> bits1],
                       rs, k + 1, nw)

\* add_restriction on the sorted batch.
AddRestrictionResult(nr, bits, sorted, nw, n_nodes) ==
  LET s == ApplyRecords([nr |-> nr, bits |-> bits], sorted, 1, nw)
  IN [nr |-> Resize(s.nr, n_nodes, <<>>), bits |-> s.bits]

InitRestrictions ==
  /\ \E nw \in 2..MaxArWays : \E osm \in SortedWayInputs(nw, MaxArLen) :
       GraphInit(osm)
  /\ node_restrictions = <<>>
  /\ way_component = <<>>
  /\ way_properties = [w \in 1..Len(way_osm_nodes) |-> FALSE]
  /\ bc = BcIdle
  /\ ar = ArIdle
  /\ bs = BsIdle

ArUnchanged ==
  /\ GraphUnchanged
  /\ UNCHANGED <<way_component, way_properties, bc, bs>>

\* Lines 65-95: a call of add_restriction with the batch rs.
AddRestriction ==
  /\ ar.calls < MaxArCalls
  /\ \E rs \in Batches(MaxRecords - ar.records) : \E sorted \in SortedByVia(rs) :
       LET r == AddRestrictionResult(node_restrictions, node_is_restricted,
                                     sorted, node_ways, Len(node_to_osm))
       IN /\ node_restrictions' = r.nr
          /\ node_is_restricted' = r.bits
          /\ ar' = [calls |-> ar.calls + 1, records |-> ar.records + Len(rs),
                    last |-> sorted, before |-> node_restrictions,
                    vias |-> ar.vias \cup {x.via : x \in Elems(rs)},
                    again |-> FALSE]
  /\ ArUnchanged

\* Lines 65-95: a call of add_restriction with the batch of the call before,
\* which that call left sorted (line 67 sorts the caller's vector).
AddRestrictionAgain ==
  /\ ar.calls >= 1
  /\ ar.calls < MaxArCalls
  /\ \E sorted \in SortedByVia(ar.last) :
       LET r == AddRestrictionResult(node_restrictions, node_is_restricted,
                                     sorted, node_ways, Len(node_to_osm))
       IN /\ node_restrictions' = r.nr
          /\ node_is_restricted' = r.bits
          /\ ar' = [ar EXCEPT !.calls = @ + 1, !.last = sorted,
                              !.before = node_restrictions, !.again = TRUE]
  /\ ArUnchanged

NextRestrictions == AddRestriction \/ AddRestrictionAgain

SpecRestrictions == InitRestrictions /\ [][NextRestrictions]_vars

-----------------------------------------------------------------------------
(* compute_big_street_neighbors.                                           *)

MaxBsWays == 4         \* ways of an input of the propagator specification
MaxBsLen == 2          \* nodes of a way of the propagator specification
NumThreads == 2        \* worker threads of parallel_for_run_threadlocal
MaxBsPasses == 2       \* calls of compute_big_street_neighbors

Threads == 1..NumThreads

\* Lines 113 and 124: the flags the work units read.
LiveFlags == way_properties

SnapshotFlags == bs.is_orig_big_street

RECURSIVE Expand(_, _, _, _, _)

\* Line 130: the call made for a way w that was not visited before.
RecurseIntoNeighbor(x, w, done, orig) == Expand(w, TRUE, 1, done, orig)

Recurse(x, w, done, orig) == Expand(x, FALSE, 1, done, orig)

\* Lines 120-137: expand(x, go_further), from the k-th way the loops of
\* lines 122-123 visit; the result is what expand returns and the visited set.
Expand(x, go_further, k, done, orig) ==
  LET ws == WaysAround(way_nodes, node_ways, x)
  IN IF k > Len(ws) THEN [found |-> FALSE, done |-> done]
     ELSE LET w == ws[k]
          IN IF At(orig, w) THEN [found |-> TRUE, done |-> done]
             ELSE IF w \notin done /\ go_further
                  THEN LET r == Recurse(x, w, done \cup {w}, orig)
                       IN IF r.found THEN r
                          ELSE Expand(x, go_further, k + 1, r.done, orig)
                  ELSE Expand(x, go_further, k + 1, done \cup {w}, orig)

\* Lines 118-140: the work unit of a way that is not originally major, run
\* by a thread whose visited set is done.
ClearDone(done) == {}

UnitResult(way, done, orig) == Expand(way, TRUE, 1, ClearDone(done) \cup {way}, orig)

\* Line 125: the write of the flag of way when expand returned found.
WriteFlagFromSnapshot(flags, way, found) ==
  IF found THEN [SnapshotFlags EXCEPT ![way + 1] = TRUE] ELSE SnapshotFlags

WriteFlag(flags, way, found) ==
  IF found THEN [flags EXCEPT ![way + 1] = TRUE] ELSE flags

InitBigStreet ==
  /\ \E osm \in AscendingWayInputs(MaxBsWays, MaxBsLen) : GraphInit(osm)
  /\ node_restrictions = <<>>
  /\ way_component = <<>>
  /\ way_properties \in [1..Len(way_osm_nodes) -> BOOLEAN]
  /\ bc = BcIdle
  /\ ar = ArIdle
  /\ bs = BsIdle

BsUnchanged ==
  /\ GraphUnchanged
  /\ UNCHANGED <<node_is_restricted, node_restrictions, way_component, bc, ar>>

\* Lines 104-109: the snapshot of the flags; the workers start.
BsSnapshot ==
  /\ bs.pc \in {"idle", "done"}
  /\ bs.passes < MaxBsPasses
  /\ bs' = [pc |-> "parallel", is_orig_big_street |-> way_properties, next |-> 0,
            cur |-> [t \in Threads |-> kInvalid], done |-> [t \in Threads |-> {}],
            ran |-> [t \in Threads |-> 0], passes |-> bs.passes + 1,
            first |-> IF bs.passes = 0 THEN way_properties ELSE bs.first]
  /\ UNCHANGED way_properties
  /\ BsUnchanged

\* parallel_for_run_threadlocal: an idle thread takes the next index.
BsClaim(t) ==
  /\ bs.pc = "parallel"
  /\ bs.cur[t] = kInvalid
  /\ bs.next < n_ways
  /\ bs' = [bs EXCEPT !.cur[t] = bs.next, !.next = @ + 1]
  /\ UNCHANGED way_properties
  /\ BsUnchanged

\* Lines 111-116: the way is originally major.
BsRunOrig(t) ==
  /\ bs.pc = "parallel"
  /\ bs.cur[t] # kInvalid
  /\ At(SnapshotFlags, bs.cur[t])
  /\ bs' = [bs EXCEPT !.cur[t] = kInvalid]
  /\ UNCHANGED way_properties
  /\ BsUnchanged

\* Lines 111-141: the way is not originally major.
BsRunExpand(t) ==
  /\ bs.pc = "parallel"
  /\ bs.cur[t] # kInvalid
  /\ ~At(SnapshotFlags, bs.cur[t])
  /\ LET way == bs.cur[t]
         r == UnitResult(way, bs.done[t], SnapshotFlags)
     IN /\ way_properties' = WriteFlag(way_properties, way, r.found)
        /\ bs' = [bs EXCEPT !.cur[t] = kInvalid, !.done[t] = r.done,
                            !.ran[t] = @ + 1]
  /\ BsUnchanged

\* The join at the end of the parallel pass.
BsJoin ==
  /\ bs.pc = "parallel"
  /\ bs.next = n_ways
  /\ \A t \in Threads : bs.cur[t] = kInvalid
  /\ bs' = [bs EXCEPT !.pc = "done"]
  /\ UNCHANGED way_properties
  /\ BsUnchanged

NextBigStreet ==
  \/ BsSnapshot
  \/ \E t \in Threads : BsClaim(t)
  \/ \E t \in Threads : BsRunOrig(t)
  \/ \E t \in Threads : BsRunExpand(t)
  \/ BsJoin

SpecBigStreet == InitBigStreet /\ [][NextBigStreet]_vars

-----------------------------------------------------------------------------
(* get_access_restriction.                                                 *)

MaxGaWays == 3         \* ways of a store of the lookup specification
MaxGaStrings == 2      \* strings of the string table

\* Line 253: the comparison of an association with the way looked up.
AccessLessOrEqual(a, b) == a[1] <= b

AccessLess(a, b) == a[1] < b

\* Lines 251-253: std::lower_bound, a binary search on [first, first + count).
RECURSIVE LowerBound(_, _, _, _)
LowerBound(col, way, first, count) ==
  IF count = 0 THEN first
  ELSE LET step == count \div 2
           it == first + step
       IN IF AccessLess(At(col, it), way)
          THEN LowerBound(col, way, it + 1, count - (step + 1))
          ELSE LowerBound(col, way, first, step)

\* Lines 246-259: what the lookup returns or how it fails.
GetAccessRestrictionResult(way) ==
  IF ~At(way_has_conditional_access_no, way) THEN [kind |-> "nullopt"]
  ELSE LET it == LowerBound(way_conditional_access_no, way, 0,
                            Len(way_conditional_access_no))
       IN IF it # Len(way_conditional_access_no)
             /\ At(way_conditional_access_no, it)[1] = way
          THEN [kind |-> "view",
                view |-> At(strings, At(way_conditional_access_no, it)[2])]
          ELSE [kind |-> "verify failed", way |-> At(way_osm_idx, way)]

\* The association columns over nw ways: at most one string per way, sorted
\* by way.
AccessColumns(nw) ==
  {col \in UNION {[1..k -> (0 .. (nw - 1)) \X (0 .. (MaxGaStrings - 1))] : k \in 0..nw} :
     \A k \in 1..(Len(col) - 1) : col[k][1] < col[k + 1][1]}

\* A loaded store: the presence bits and the associations are read from
\* files and need not agree.
InitAccess ==
  /\ \E nw \in 1..MaxGaWays : GraphColumns([k \in 1..nw |-> <<1>>])
  /\ node_restrictions = <<>>
  /\ way_component = <<>>
  /\ way_properties = [w \in 1..Len(way_osm_nodes) |-> FALSE]
  /\ bc = BcIdle
  /\ ar = ArIdle
  /\ bs = BsIdle
  /\ way_osm_idx = [k \in 1..Len(way_osm_nodes) |-> k]
  /\ way_has_conditional_access_no \in [1..Len(way_osm_nodes) -> BOOLEAN]
  /\ way_conditional_access_no \in AccessColumns(Len(way_osm_nodes))
  /\ strings = [k \in 1..MaxGaStrings |-> <<"string", k>>]
  /\ ga = [result |-> [k \in 1..Len(way_osm_nodes) |-> [kind |-> "not called"]]]

\* Lines 246-259: a call of get_access_restriction(way).
GetAccessRestriction ==
  /\ \E way \in 0 .. (n_ways - 1) :
       ga' = [ga EXCEPT !.result[way + 1] = GetAccessRestrictionResult(way)]
  /\ UNCHANGED <<way_osm_nodes, way_polylines, multi, node_to_osm, way_nodes,
                 way_node_dist, node_ways, node_in_way_idx, node_is_restricted,
                 node_restrictions, way_component, way_properties,
                 cw, bc, ar, bs, wl, way_osm_idx,
                 way_has_conditional_access_no, way_conditional_access_no,
                 strings>>

NextAccess == GetAccessRestriction

SpecAccess == InitAccess /\ [][NextAccess]_vars

-----------------------------------------------------------------------------
(* Properties of connect_ways.                                             *)

ConnectDone == cw.pc = "done"

Ways == 0 .. (Len(way_nodes) - 1)

Nodes == 0 .. (Len(node_to_osm) - 1)

\* C4 as stated: after connect_ways every way's way_node_dist has exactly
\* len(way_nodes) - 1 entries, each a non-negative rounded distance.
C4DistOneFewerEveryWay ==
  ConnectDone =>
    \A w \in Ways :
      /\ Len(At(way_node_dist, w)) = Len(At(way_nodes, w)) - 1
      /\ \A k \in 1..Len(At(way_node_dist, w)) : At(way_node_dist, w)[k] \in Nat

\* C4 amended: after connect_ways a way with at least one internal node has
\* exactly len(way_nodes) - 1 distance entries, a way with no internal node
\* has none, and every entry is a non-negative 16-bit rounded distance.
C4DistOneFewer ==
  ConnectDone =>
    /\ Len(way_node_dist) = Len(way_osm_nodes)
    /\ Len(way_nodes) = Len(way_osm_nodes)
    /\ \A w \in Ways :
         /\ Len(At(way_node_dist, w)) =
              (IF Len(At(way_nodes, w)) = 0 THEN 0 ELSE Len(At(way_nodes, w)) - 1)
         /\ \A k \in 1..Len(At(way_node_dist, w)) :
              At(way_node_dist, w)[k] \in 0 .. (kUint16 - 1)

C4Witness ==
  /\ ConnectDone
  /\ \E w \in Ways : Len(At(way_nodes, w)) >= 2 /\ At(way_node_dist, w)[1] > 0
  /\ \E w \in Ways : Len(At(way_nodes, w)) = 0

\* C8: once the graph nodes are created on a store whose node_to_osm was
\* empty, node_to_osm holds an external id exactly once if its multi bit is
\* set and not at all otherwise, and is strictly increasing.
C8NodeToOsm ==
  cw.pc # "idle" =>
    /\ \A x \in 1..MaxOsm :
         Cardinality({k \in 1..Len(node_to_osm) : node_to_osm[k] = x})
           = (IF x \in multi THEN 1 ELSE 0)
    /\ \A k \in 1..(Len(node_to_osm) - 1) : node_to_osm[k] < node_to_osm[k + 1]

C8Witness ==
  /\ ConnectDone
  /\ Len(node_to_osm) >= 2
  /\ \E x \in Elems(Concat(way_osm_nodes)) : x \notin Elems(node_to_osm)

\* C16: after connect_ways (every way has fewer than 2^16 internal nodes)
\* node_ways and node_in_way_idx have one list per node, of the same length;
\* entry k of node n names a way and a position of way_nodes of that way
\* which holds n, and every occurrence of a node at a position of a way's
\* way_nodes has exactly one entry; positions count internal nodes only.
C16NodeWaysConsistent ==
  ConnectDone =>
    /\ Len(node_ways) = Len(node_to_osm)
    /\ Len(node_in_way_idx) = Len(node_to_osm)
    /\ \A n \in Nodes :
         /\ Len(At(node_ways, n)) = Len(At(node_in_way_idx, n))
         /\ \A k \in 1..Len(At(node_ways, n)) :
              LET w == At(node_ways, n)[k]
                  p == At(node_in_way_idx, n)[k]
              IN /\ w \in Ways
                 /\ p \in Idx(At(way_nodes, w))
                 /\ At(At(way_nodes, w), p) = n
    /\ \A w \in Ways : \A p \in Idx(At(way_nodes, w)) :
         LET n == At(At(way_nodes, w), p)
         IN Cardinality({k \in 1..Len(At(node_ways, n)) :
                          /\ At(node_ways, n)[k] = w
                          /\ At(node_in_way_idx, n)[k] = p}) = 1

C16Witness ==
  /\ ConnectDone
  /\ \E w \in Ways :
       /\ Len(way_osm_nodes[w + 1]) = 3
       /\ way_osm_nodes[w + 1][2] \notin multi
       /\ Len(At(way_nodes, w)) = 2
       /\ \E k \in 1..Len(At(node_ways, At(way_nodes, w)[2])) :
            /\ At(node_ways, At(way_nodes, w)[2])[k] = w
            /\ At(node_in_way_idx, At(way_nodes, w)[2])[k] = 1

\* The points of way w (0-based) that are internal nodes, in order.
RECURSIVE InternalPoints(_, _)
InternalPoints(w, k) ==
  IF k > Len(way_osm_nodes[w + 1]) THEN <<>>
  ELSE (IF way_osm_nodes[w + 1][k] \in multi THEN <<k>> ELSE <<>>)
         \o InternalPoints(w, k + 1)

\* The sum of the distances of the consecutive points a..b of a polyline.
RECURSIVE PathLength(_, _, _)
PathLength(polyline, a, b) ==
  IF a >= b THEN 0
  ELSE GeoDistance(polyline[a + 1], polyline[a]) + PathLength(polyline, a + 1, b)

\* C18: entry k of way_node_dist of a way is the rounded sum of the distances
\* of all consecutive points between its k-th and (k+1)-th internal node,
\* the points that are no internal nodes included; what lies before the first
\* and after the last internal node is in no entry.
C18DistBetweenInternalNodes ==
  ConnectDone =>
    \A w \in Ways :
      LET ps == InternalPoints(w, 1)
      IN /\ Len(At(way_node_dist, w)) = (IF ps = <<>> THEN 0 ELSE Len(ps) - 1)
         /\ \A k \in 1..Len(At(way_node_dist, w)) :
              At(way_node_dist, w)[k] =
                RoundedDist(PathLength(way_polylines[w + 1], ps[k], ps[k + 1]))

C18Witness ==
  /\ ConnectDone
  /\ \E w \in Ways :
       /\ InternalPoints(w, 1) = <<1, 3>>
       /\ way_polylines[w + 1] = <<1, 0, 1>>
       /\ At(way_node_dist, w) = <<1>>
  /\ \E w \in Ways :
       /\ InternalPoints(w, 1) = <<2, 3>>
       /\ way_polylines[w + 1] = <<0, 1, 1>>
       /\ At(way_node_dist, w) = <<0>>

\* The loop is in a way; the position the last internal node was stored with.
InWay == wl.pc = "loop"

StoredPos == At(wl.st.node_in_way_idx, GetNodeIdx(node_to_osm, 1))

\* C19 as stated: the diagnostic is emitted for a way exactly when one of its
\* internal nodes needs a position beyond the 16-bit range, i.e. when the way
\* has more than 2^16 internal nodes.
C19DiagnosticIffIndexBeyondRange ==
  InWay => (wl.st.error <=> wl.seen > kUint16)

\* C19 amended: the diagnostic is emitted for a way exactly when the way has
\* at least 2^16 internal nodes (the counter is 65535 at an internal node and
\* the increment wraps it), also when no further internal node follows; the
\* loop goes on, every internal node is stored with its true position
\* mod 2^16, and the ways after it are processed from position 0.
C19DiagnosticAtLastPosition ==
  /\ InWay => (wl.st.error <=> wl.seen >= kUint16)
  /\ InWay => wl.st.i = wl.seen % kUint16
  /\ (InWay /\ wl.seen >= 1) => StoredPos = <<(wl.seen - 1) % kUint16>>
  /\ wl.ways >= 1 => ((wl.ways - 1) \in Elems(wl.errors) <=> wl.before >= kUint16)

C19Witness ==
  /\ InWay
  /\ wl.before = kUint16 + 2
  /\ wl.errors = <<0>>
  /\ wl.seen = 2
  /\ StoredPos = <<1>>
  /\ ~wl.st.error

-----------------------------------------------------------------------------
(* Properties of build_components.                                         *)

\* Two ways share an internal node.
SharesNode(a, b) == Elems(At(way_nodes, a)) \cap Elems(At(way_nodes, b)) # {}

\* The ways within k steps of shared-node adjacency of the ways in S.
RECURSIVE Within(_, _)
Within(S, k) ==
  IF k = 0 THEN S
  ELSE Within(S \cup {b \in Ways : \E a \in S : SharesNode(a, b)}, k - 1)

Connected(a, b) == b \in Within({a}, n_ways)

BcDone == bc.pc = "done"

\* C3: after build_components two ways have the same component id iff a path
\* of ways with consecutive ways sharing an internal node connects them; a way
\* without internal nodes is alone; whichever way the flood fill removes.
C3ComponentsAreConnectedSets ==
  BcDone =>
    /\ \A a, b \in Ways :
         (At(way_component, a) = At(way_component, b)) <=> (a = b \/ Connected(a, b))
    /\ \A a, b \in Ways :
         SharesNode(a, b) => At(way_component, a) = At(way_component, b)
    /\ \A a \in Ways :
         At(way_nodes, a) = <<>> =>
           \A b \in Ways \ {a} : At(way_component, b) # At(way_component, a)

C3Witness ==
  /\ BcDone
  /\ \E a, b \in Ways :
       a # b /\ ~SharesNode(a, b) /\ At(way_component, a) = At(way_component, b)
  /\ \E a \in Ways : At(way_nodes, a) = <<>>

\* C10: after build_components every way has a valid component id, and a
\* component id that is valid is never changed again, neither later in the
\* run nor by another run of build_components.
C10ComponentWriteOnce ==
  /\ [](BcDone => /\ Len(way_component) = n_ways
                  /\ \A w \in Ways : At(way_component, w) \in 0 .. (n_ways - 1))
  /\ [][\A k \in 1..Len(way_component) :
          way_component[k] # kInvalid =>
            /\ k <= Len(way_component')
            /\ way_component'[k] = way_component[k]]_vars

C10Witness ==
  /\ BcDone
  /\ bc.runs = 2
  /\ n_ways >= 2
  /\ \E a, b \in Ways : a # b /\ At(way_component, a) = At(way_component, b)

-----------------------------------------------------------------------------
(* Properties of add_restriction.                                          *)

\* The restriction list of node n before and after the last call; a node the
\* column does not cover has no restrictions.
ListIn(nr, n) == IF n < Len(nr) THEN At(nr, n) ELSE <<>>

BeforeList(n) == ListIn(ar.before, n)

NowList(n) == ListIn(node_restrictions, n)

\* What the last call appended to the list of node n, if it kept the list.
Appended(n) == SubSeq(NowList(n), Len(BeforeList(n)) + 1, Len(NowList(n)))

KeptList(n) ==
  /\ Len(NowList(n)) >= Len(BeforeList(n))
  /\ SubSeq(NowList(n), 1, Len(BeforeList(n))) = BeforeList(n)

\* The last call had a batch of the single record x.
LastCallWas(x) == ar.calls >= 1 /\ ar.last = <<x>>

\* The way's slot at the node.
Slot(node, way) == GetWayPos(node_ways, node, way)

\* C2: every forbidden pair in a node's list before a call of add_restriction
\* is in that node's list after the call.
C2AppendOnly ==
  \A n \in Nodes : Elems(BeforeList(n)) \subseteq Elems(NowList(n))

\* C6 as stated: an Only record (via V, from A, to B) appends to V's list
\* exactly the pairs (slot(A), slot(X)) for the ways X # B touching V.
C6OnlyPairsBySlot ==
  \A x \in ResolvedRecords :
    (LastCallWas(x) /\ x.type = kOnly) =>
      /\ KeptList(x.via)
      /\ Elems(Appended(x.via)) =
           {<<Slot(x.via, x.from), Slot(x.via, X)>> :
              X \in Elems(At(node_ways, x.via)) \ {x.to}}

\* The positions of V's way list an Only record forbids: from a position
\* holding A to a position holding a way other than B.
OnlyPositions(x) ==
  LET ws == At(node_ways, x.via)
  IN {<<i, j>> \in Idx(ws) \X Idx(ws) : At(ws, i) = x.from /\ At(ws, j) # x.to}

\* C6 amended: an Only record (via V, from A, to B) appends to V's list
\* exactly the pairs (i, j), each once, of a position i holding A and a
\* position j holding a way other than B in V's way list; no pair to a
\* position of B and no pair from a position of another way is appended.
C6OnlyPairs ==
  \A x \in ResolvedRecords :
    (LastCallWas(x) /\ x.type = kOnly) =>
      /\ KeptList(x.via)
      /\ Elems(Appended(x.via)) = OnlyPositions(x)
      /\ Len(Appended(x.via)) = Cardinality(OnlyPositions(x))
      /\ \A p \in Elems(Appended(x.via)) :
           /\ At(At(node_ways, x.via), p[1]) = x.from
           /\ At(At(node_ways, x.via), p[2]) # x.to

C6Witness ==
  \E x \in ResolvedRecords :
    /\ LastCallWas(x)
    /\ x.type = kOnly
    /\ x.from # x.to
    /\ Cardinality(Elems(At(node_ways, x.via))) = 3
    /\ BeforeList(x.via) # <<>>
    /\ Len(Appended(x.via)) = 2

\* C7: a No record (via V, from A, to B) appends the one pair
\* (slot(A), slot(B)) to V's list and changes the list of no other node.
C7NoAppendsOnePair ==
  \A x \in ResolvedRecords :
    (LastCallWas(x) /\ x.type = kNo) =>
      /\ NowList(x.via) =
           Append(BeforeList(x.via), <<Slot(x.via, x.from), Slot(x.via, x.to)>>)
      /\ \A n \in Nodes \ {x.via} : NowList(n) = BeforeList(n)

\* The pairs the records of the last batch append to the list of node n, in
\* the order of the sorted batch.
BatchPairs(n) ==
  Concat([k \in 1..Len(ar.last) |->
            IF ar.last[k].via = n THEN RecordPairs(ar.last[k], node_ways) ELSE <<>>])

\* C12: a call of add_restriction with the batch of the call before appends
\* the pairs of every via node of the batch to that node's list a second
\* time, after the list the first call left, and the set of distinct pairs
\* of every node is the same as before the call.
C12RerunAppendsAgain ==
  ar.again =>
    /\ \A n \in {x.via : x \in Elems(ar.last)} :
         NowList(n) = BeforeList(n) \o BatchPairs(n)
    /\ \A n \in Nodes : Elems(NowList(n)) = Elems(BeforeList(n))

\* The via nodes of all batches so far.
EverVia(n) == n \in ar.vias

\* C20: after any calls of add_restriction the column has one list per
\* internal node, the restricted bit of a node is set iff the node was the
\* via node of a record of some batch, and a node that never was has an empty
\* list; a call with an empty batch changes no list and no bit.
C20ColumnCoversNodes ==
  /\ [](ar.calls >= 1 =>
          /\ Len(node_restrictions) = Len(node_to_osm)
          /\ Len(node_is_restricted) = Len(node_to_osm)
          /\ \A n \in Nodes : At(node_is_restricted, n) <=> EverVia(n)
          /\ \A n \in Nodes : ~EverVia(n) => At(node_restrictions, n) = <<>>)
  /\ [](ar.last = <<>> /\ ar.calls >= 1 =>
          \A n \in Nodes : NowList(n) = BeforeList(n))
  /\ [][ar'.last = <<>> => node_is_restricted' = node_is_restricted]_vars

C20Witness ==
  /\ ar.calls = 2
  /\ ar.last = <<>>
  /\ \E n \in Nodes : EverVia(n) /\ At(node_restrictions, n) # <<>>
  /\ \E n \in Nodes : ~EverVia(n)

-----------------------------------------------------------------------------
(* Properties of compute_big_street_neighbors.                             *)

\* The first pass has ended.
BsFirstPassDone == bs.pc = "done" /\ bs.passes = 1

\* The way was tagged major before the first pass.
OrigMajor(w) == At(bs.first, w)

\* The claim's two hops: w shares a node with a way v that is not originally
\* major, and v shares a node with an originally major way.
TwoHopsFromMajor(w) ==
  \E v \in Ways :
    /\ ~OrigMajor(v)
    /\ SharesNode(w, v)
    /\ \E u \in Ways : OrigMajor(u) /\ SharesNode(v, u)

\* C1: after one pass every way that is not originally major and lies two
\* hops from an originally major way is flagged major.
C1TwoHopsFlagged ==
  BsFirstPassDone =>
    \A w \in Ways : (~OrigMajor(w) /\ TwoHopsFromMajor(w)) => At(way_properties, w)

\* C9: after one pass every flagged way is originally major or within two
\* hops of an originally major way; a way three or more hops away is not
\* flagged.
C9FlaggedWithinTwoHops ==
  BsFirstPassDone =>
    \A w \in Ways :
      At(way_properties, w) => \E u \in Within({w}, 2) : OrigMajor(u)

C9Witness ==
  /\ BsFirstPassDone
  /\ \E w \in Ways :
       /\ ~At(way_properties, w)
       /\ \E u \in Within({w}, 3) : OrigMajor(u)
       /\ ~\E u \in Within({w}, 2) : OrigMajor(u)
  /\ \E w \in Ways : At(way_properties, w) /\ ~OrigMajor(w)

\* The flags a single thread leaves when it runs the work units k, k+1, ...
\* one after the other, reading the snapshot orig.
RECURSIVE SequentialFlags(_, _, _, _)
SequentialFlags(k, flags, done, orig) ==
  IF k >= Len(flags) THEN flags
  ELSE IF At(orig, k) THEN SequentialFlags(k + 1, flags, done, orig)
       ELSE LET r == UnitResult(k, done, orig)
            IN SequentialFlags(k + 1,
                 WriteFlag(flags, k, r.found),
                 r.done, orig)

\* C5: a step of the parallel pass changes no flag but that of the way whose
\* work unit it ends, and when the pass has ended the flags are those of the
\* sequential run on the snapshot, for every interleaving of the work units
\* and every assignment of work units to threads.
C5DisjointWritesSameResult ==
  /\ [][\A w \in Ways :
          At(way_properties', w) # At(way_properties, w) =>
            \E t \in Threads : bs.cur[t] = w /\ bs'.cur[t] = kInvalid]_vars
  /\ [](bs.pc = "done" =>
          way_properties =
            SequentialFlags(0, bs.is_orig_big_street, {}, bs.is_orig_big_street))

C5Witness ==
  /\ bs.pc = "done"
  /\ \E t \in Threads : bs.ran[t] >= 2
  /\ \A t \in Threads : bs.ran[t] >= 1
  /\ \E w \in Ways : At(way_properties, w) /\ ~At(bs.is_orig_big_street, w)

\* C11: after one pass every way that is not originally major and shares an
\* internal node with an originally major way is flagged major.
C11OneHopFlagged ==
  BsFirstPassDone =>
    \A w \in Ways :
      (~OrigMajor(w) /\ \E u \in Ways : OrigMajor(u) /\ SharesNode(w, u))
        => At(way_properties, w)

C11Witness ==
  /\ BsFirstPassDone
  /\ \E w \in Ways :
       /\ ~OrigMajor(w)
       /\ At(way_properties, w)
       /\ Len(At(way_nodes, w)) = 2
       /\ \E u \in Ways : OrigMajor(u) /\ At(way_nodes, w)[2] \in Elems(At(way_nodes, u))
       /\ ~\E u \in Ways : OrigMajor(u) /\ At(way_nodes, w)[1] \in Elems(At(way_nodes, u))

\* C14: the flag of a way only ever goes from false to true: no step of the
\* propagator, in any pass, clears a flag, and a way that was major before
\* the first pass is major in every later state.
C14FlagMonotone ==
  /\ [][\A k \in 1..Len(way_properties) :
          way_properties[k] => way_properties'[k]]_vars
  /\ [](bs.passes >= 1 => \A w \in Ways : OrigMajor(w) => At(way_properties, w))

C14Witness ==
  /\ bs.passes = 2
  /\ bs.pc = "done"
  /\ \E w \in Ways : OrigMajor(w)
  /\ \E w \in Ways : ~OrigMajor(w) /\ At(bs.is_orig_big_street, w)
  /\ \E w \in Ways : ~At(bs.is_orig_big_street, w) /\ At(way_properties, w)

\* The smallest way of the connected set of ways of w.
MinOfComponent(w) ==
  CHOOSE m \in Within({w}, n_ways) : \A v \in Within({w}, n_ways) : m <= v

\* C13: after build_components the component ids are 0..k-1 without gaps, in
\* the order of the smallest way of each component: the id of a way is the
\* number of components whose smallest way is smaller than the smallest way
\* of its own component, whichever way the flood fill removes from the work
\* set.
C13ComponentsNumberedByFirstWay ==
  BcDone =>
    /\ \A w \in Ways :
         At(way_component, w) =
           Cardinality({m \in Ways : MinOfComponent(m) = m /\ m < MinOfComponent(w)})
    /\ {At(way_component, w) : w \in Ways} =
         0 .. (Cardinality({MinOfComponent(w) : w \in Ways}) - 1)

C13Witness ==
  /\ BcDone
  /\ way_component = <<0, 1, 0, 0>>
  /\ SharesNode(0, 2)
  /\ SharesNode(0, 3)

\* C17: build_components terminates; a flood fill ends with an empty work
\* set; over a whole run no way is inserted into the work set twice, and a
\* way is inserted only in the step that gives it its component id.
C17FloodFillTerminates ==
  /\ (bc.pc \in {"loop", "fill"}) ~> BcDone
  /\ [](bc.pc \in {"loop", "done"} => bc.q = {})
  /\ [](bc.pc # "idle" => \A w \in Ways : At(bc.inserted, w) <= 1)
  /\ [][bc.pc \in {"loop", "fill"} =>
          \A k \in 1..Len(bc.inserted) :
            bc'.inserted[k] # bc.inserted[k] =>
              way_component[k] = kInvalid /\ way_component'[k] # kInvalid]_vars

C17Witness ==
  /\ BcDone
  /\ \A w \in Ways : At(bc.inserted, w) = 1
  /\ \E a, b \in Ways : a # b /\ ~SharesNode(a, b) /\ Connected(a, b)
  /\ \E a, b \in Ways : ~Connected(a, b)

-----------------------------------------------------------------------------
(* Properties of get_access_restriction.                                   *)

\* The way has an association in the column.
HasAssociation(way) ==
  \E k \in 1..Len(way_conditional_access_no) : way_conditional_access_no[k][1] = way

\* The string of the way's association.
AssociatedString(way) ==
  LET k == CHOOSE k \in 1..Len(way_conditional_access_no) :
             way_conditional_access_no[k][1] = way
  IN At(strings, way_conditional_access_no[k][2])

\* C15: get_access_restriction returns nothing for a way whose presence bit
\* is not set, whatever the association column holds; the string of the
\* way's association when the bit is set and the association exists; fails,
\* reporting the external id of the way, when the bit is set and there is no
\* association; and changes nothing in the store.
C15AccessRestrictionLookup ==
  /\ [](\A way \in Ways :
          LET r == At(ga.result, way)
          IN r.kind # "not called" =>
               IF ~At(way_has_conditional_access_no, way)
               THEN r = [kind |-> "nullopt"]
               ELSE IF HasAssociation(way)
                    THEN r = [kind |-> "view", view |-> AssociatedString(way)]
                    ELSE r = [kind |-> "verify failed", way |-> At(way_osm_idx, way)])
  /\ [][UNCHANGED <<way_osm_nodes, way_polylines, multi, node_to_osm, way_nodes,
                    way_node_dist, node_ways, node_in_way_idx, node_is_restricted,
                    node_restrictions, way_component, way_properties,
                    way_osm_idx, way_has_conditional_access_no,
                    way_conditional_access_no, strings>>]_vars

C15Witness ==
  \E a, b, c \in Ways :
    /\ At(ga.result, a).kind = "nullopt" /\ HasAssociation(a)
    /\ At(ga.result, b).kind = "view" /\ At(ga.result, b).view = <<"string", 2>>
    /\ At(ga.result, c).kind = "verify failed" /\ a < c /\ c < b

====
